---- MODULE Spec2Model ----
(***************************************************************************)
(* The virtual project host of the script mode: createLanguageService      *)
(* (docs / versions / files / compilerOptions / currentTextDocument, the   *)
(* LanguageServiceHost callbacks) and the feature operations of            *)
(* getJavascriptMode that drive it.                                        *)
(***************************************************************************)
EXTENDS Integers, Sequences, FiniteSets, TLC

VARIABLES
  disk,                 \* ts.sys: path -> file text, or Undefined when no file exists
  docs,                 \* Map<string, TextDocument>: path -> embedded script document
  versions,             \* Map<string, number>: path -> counter (0 = no entry)
  files,                \* parsedConfig.fileNames, the root file list
  currentTextDocument,  \* the document the last accepted update stored
  compilerOptions,      \* the compilation settings handed to the service
  cleanedUp,            \* the last handler invoked jsLanguageService.cleanupSemanticCache()
  sourceFiles,          \* the service's syntax trees: path -> script version parsed, or NoTree
  lastOp                \* the last operation called, with its arguments

vars == <<disk, docs, versions, files, currentTextDocument, compilerOptions, cleanedUp,
          sourceFiles, lastOp>>

hostState == <<docs, versions, files, currentTextDocument, compilerOptions>>

\* ---------------------------------------------------------------- bounds

\* Largest value a versions counter may reach (updates that would pass it are not taken).
MaxVersion == 3

\* Largest editor version of a document handed to a feature operation.
MaxDocVersion == 2

\* ---------------------------------------------------------------- values

Undefined == [undefined |-> TRUE]

\* A text is a sequence of regions; a region is a run of text in one language.
\* Blanked regions are what the extractor leaves of the text outside the script block.
Region(lang, text) == [languageId |-> lang, text |-> text]

Blank == Region("blank", " ")

Str(regions) == [regions |-> regions]

EmptyString == Str(<< >>)

JsX == Str(<<Region("html", "t"), Region("javascript", "x")>>)

TsX == Str(<<Region("html", "t"), Region("typescript", "x")>>)

Contents == {JsX, TsX}

\* File paths: directory, stem and extension.
Path(dir, stem, ext) == [dir |-> dir, stem |-> stem, ext |-> ext]

P_a == Path("/p", "a", "vue")

P_b == Path("/p", "b", "vue")

P_c == Path("/p", "c", "ts")

Q_a == Path("/q", "a", "vue")

Q_b == Path("/q", "b", "vue")

bridge_fileName == Path("vue-temp", "vue-editor-bridge", "ts")

bridge_content == Str(<<Region("typescript", "bridge")>>)

Paths == {P_a, P_b, P_c, Q_a, Q_b, bridge_fileName}

\* The disk files that change while the host lives; the other files keep the content
\* they have at start-up.
MutablePaths == {P_b}

\* Import specifiers: the bridge module, "./b.vue", "./c" and "/q/b.vue".
Name(abs, dir, stem, ext) == [abs |-> abs, dir |-> dir, stem |-> stem, ext |-> ext]

bridge_moduleName == Name(FALSE, "", "vue-editor-bridge", "")

N_relB == Name(FALSE, ".", "b", "vue")

N_relC == Name(FALSE, ".", "c", "")

N_absB == Name(TRUE, "/q", "b", "vue")

ModuleNames == {bridge_moduleName, N_relB, N_relC, N_absB}

ContainingFiles == {P_a, Q_a}

\* ------------------------------------------------------------ documents

\* vscode-uri: Uri.file(path), Uri.parse(uri).fsPath
Uri_file(path) == [scheme |-> "file", path |-> path, fsPath |-> path]

getFileFsPath(documentUri) == documentUri.fsPath

getFilePath(documentUri) == documentUri.path

getNormalizedFileFsPath(fileName) == Uri_file(fileName).fsPath

TextDocument_create(uri, languageId, version, text) ==
  [uri |-> uri, languageId |-> languageId, version |-> version, text |-> text]

\* The documents a feature operation can be called with. Any editor version can come
\* with any text: a document that is closed and opened again starts over at version 1
\* with the text it has by then, so uri and version do not determine the text.
DocInputs ==
  { TextDocument_create(Uri_file(P_b), "vue", v, c) : v \in 1..MaxDocVersion, c \in Contents }
    \cup { TextDocument_create(Uri_file(P_c), "vue", 1, JsX) }

\* _.endsWith(fileFsPath, '.vue') and isVue(fileName)
isVue(fileName) == fileName.ext = "vue"

\* ts.sys.fileExists / ts.sys.readFile
fileExists(fileName) == fileName \in DOMAIN disk /\ disk[fileName] # Undefined

readFile(fileName) == IF fileName \in DOMAIN disk THEN disk[fileName] ELSE Undefined

\* ----------------------------------------------------- extraction

RECURSIVE MapRegions(_, _)
MapRegions(regions, keep) ==
  IF regions = << >> THEN << >>
  ELSE <<IF Head(regions).languageId \in keep THEN Head(regions) ELSE Blank>>
         \o MapRegions(Tail(regions), keep)

\* VueDocumentRegions.getLanguagesInDocument()
getLanguagesInDocument(text) ==
  IF text = Undefined THEN {}
  ELSE { text.regions[i].languageId : i \in DOMAIN text.regions } \ {"blank"}

\* VueDocumentRegions.getEmbeddedDocument(languageId): the text with everything outside
\* the regions of that language blanked, as a document of that language.
getEmbeddedDocument(document, languageId) ==
  TextDocument_create(document.uri, languageId, document.version,
    IF document.text = Undefined THEN EmptyString
    ELSE Str(MapRegions(document.text.regions, {languageId})))

\* The parse callback of the jsDocuments cache.
jsDocuments_parse(document) ==
  IF "typescript" \in getLanguagesInDocument(document.text)
  THEN getEmbeddedDocument(document, "typescript")
  ELSE getEmbeddedDocument(document, "javascript")

\* LanguageModelCache.get: the model of the document handed in.
jsDocuments_get(document) == jsDocuments_parse(document)

\* parseVue(text): the script block of a mixed-content text, the rest blanked.
parseVue(text) == Str(MapRegions(text.regions, {"javascript", "typescript"}))

\* ------------------------------------------------- createLanguageService

\* The compiler options after parseJsonConfigFileContent of a project file that sets
\* none of them; allowNonTsExtensions is forced on.
InitialCompilerOptions == [allowJs |-> TRUE, allowNonTsExtensions |-> TRUE]

PlainScript == Str(<<Region("typescript", "c")>>)

\* The disk at start-up.
InitialDisks ==
  { [p \in Paths |->
       IF p = P_b THEN b
       ELSE IF p = Q_b THEN TsX
       ELSE IF p = P_c THEN PlainScript
       ELSE Undefined] : b \in Contents \cup {Undefined} }

\* parsedConfig.fileNames: the script files the project file names and, as .vue is
\* registered as an extra extension, the .vue files on disk it includes.
parsedConfig_fileNames(d, includeVue) ==
  SelectSeq(<<P_c, P_b, Q_b>>,
            LAMBDA p : d[p] # Undefined /\ (isVue(p) => includeVue))

\* updateCurrentTextDocument, as taken when the guard on the current document passes
\* (accepted) and as skipped otherwise.
isAccepted(doc) ==
  \/ currentTextDocument = Undefined
  \/ doc.uri # currentTextDocument.uri
  \/ doc.version # currentTextDocument.version

\* A bug that takes every update of a tracked path for a dialect change.
languageIdChanged_anyUpdate(lastDoc, newDoc) == lastDoc # Undefined

languageIdChanged(lastDoc, newDoc) ==
  lastDoc # Undefined /\ newDoc.languageId # lastDoc.languageId

\* A bug that pushes the path when it is already tracked instead of when it is new.
pushedFiles_whenTracked(fileFsPath) ==
  IF docs[fileFsPath] # Undefined /\ isVue(fileFsPath)
  THEN Append(files, fileFsPath)
  ELSE files

pushedFiles(fileFsPath) ==
  IF docs[fileFsPath] = Undefined /\ isVue(fileFsPath)
  THEN Append(files, fileFsPath)
  ELSE files

allowJsAfterChange(lastDoc, newDoc) == lastDoc.languageId # "typescript"

\* A bug that stores 1 instead of counting up.
bumpedVersion_reset(version) == 1

\* (versions.get(fileFsPath) || 0) + 1
bumpedVersion(version) == version + 1

updateCurrentTextDocument(doc) ==
  LET fileFsPath == getFileFsPath(doc.uri)
      newDoc == jsDocuments_get(doc)
      lastDoc == docs[fileFsPath]
  IN /\ files' = pushedFiles(fileFsPath)
     /\ IF isAccepted(doc)
        THEN /\ currentTextDocument' = newDoc
             /\ IF languageIdChanged(lastDoc, newDoc)
                THEN /\ compilerOptions' =
                          [compilerOptions EXCEPT !.allowJs = allowJsAfterChange(lastDoc, newDoc)]
                     /\ cleanedUp' = TRUE
                ELSE /\ UNCHANGED compilerOptions
                     /\ cleanedUp' = FALSE
             /\ docs' = [docs EXCEPT ![fileFsPath] = newDoc]
             /\ versions' = [versions EXCEPT ![fileFsPath] = bumpedVersion(@)]
        ELSE /\ UNCHANGED <<currentTextDocument, compilerOptions, docs, versions>>
             /\ cleanedUp' = FALSE

\* An update is taken only while the counter it would bump stays within MaxVersion.
WithinBounds(doc) == isAccepted(doc) => versions[getFileFsPath(doc.uri)] < MaxVersion

\* -------------------------------------------------------- host callbacks

getCompilationSettings == compilerOptions

getScriptFileNames == files

\* A bug that reports the count as it was before the last bump.
getScriptVersion_beforeBump(fileName) ==
  IF fileName = bridge_fileName THEN "0"
  ELSE LET version == versions[getNormalizedFileFsPath(fileName)]
       IN IF version # 0 THEN ToString(version - 1) ELSE "0"

getScriptVersion(fileName) ==
  IF fileName = bridge_fileName THEN "0"
  ELSE LET version == versions[getNormalizedFileFsPath(fileName)]
       IN IF version # 0 THEN ToString(version) ELSE "0"

ScriptKind(member) == [enum |-> "ScriptKind", member |-> member]

Extension(member) == [enum |-> "Extension", member |-> member]

\* ts.getScriptKindFromFileName
getScriptKindFromFileName(fileName) ==
  IF fileName.ext = "ts" THEN ScriptKind("TS")
  ELSE IF fileName.ext = "js" THEN ScriptKind("JS")
  ELSE ScriptKind("Unknown")

diskDocument(fileName) ==
  jsDocuments_get(TextDocument_create(Uri_file(fileName), "vue", 0, readFile(fileName)))

\* A bug that lets the file on disk win over the tracked document.
docOrDiskDocument_diskFirst(fileName) ==
  IF fileExists(fileName) THEN diskDocument(fileName) ELSE docs[fileName]

\* docs.get(fileName) || jsDocuments.get(TextDocument.create(uri, 'vue', 0, readFile(fileName)))
docOrDiskDocument(fileName) ==
  IF docs[fileName] # Undefined THEN docs[fileName] ELSE diskDocument(fileName)

\* A bug that classifies a .vue path by its file on disk alone.
getScriptKind_diskOnly(fileName) ==
  IF isVue(fileName)
  THEN LET doc == diskDocument(Uri_file(fileName).fsPath)
       IN IF doc.languageId = "typescript" THEN ScriptKind("TS") ELSE ScriptKind("JS")
  ELSE IF fileName = bridge_fileName THEN Extension("Ts")
  ELSE getScriptKindFromFileName(fileName)

getScriptKind(fileName) ==
  IF isVue(fileName)
  THEN LET doc == docOrDiskDocument(Uri_file(fileName).fsPath)
       IN IF doc.languageId = "typescript" THEN ScriptKind("TS") ELSE ScriptKind("JS")
  ELSE IF fileName = bridge_fileName THEN Extension("Ts")
  ELSE getScriptKindFromFileName(fileName)

Unresolved == [unresolved |-> TRUE]

ResolvedModule(resolvedFileName, extension) ==
  [resolvedFileName |-> resolvedFileName, extension |-> extension]

\* A bug that joins the specifier with a fixed directory instead of the importer's.
joinDirname_fixed(containingFile, name) ==
  Path(IF name.abs THEN name.dir ELSE "/p", name.stem, name.ext)

\* path.join(path.dirname(containingFile), name)
joinDirname(containingFile, name) ==
  Path(IF name.abs THEN name.dir ELSE containingFile.dir, name.stem, name.ext)

\* ts.resolveModuleName(...).resolvedModule: the ordinary resolution, which finds a
\* script file of the specifier's name and nothing else.
ts_resolveModuleName(name, containingFile) ==
  LET candidate == Path(IF name.abs THEN name.dir ELSE containingFile.dir, name.stem, "ts")
  IN IF name.ext = "" /\ name.dir # "" /\ fileExists(candidate)
     THEN ResolvedModule(candidate, Extension("Ts"))
     ELSE Unresolved

\* A bug that resolves the candidate path without asking whether the file exists.
resolveVueModule_noExistsTest(name, containingFile) ==
  LET resolvedFileName == Uri_file(joinDirname(containingFile, name)).fsPath
      doc == docOrDiskDocument(resolvedFileName)
  IN ResolvedModule(resolvedFileName,
       IF doc.languageId = "typescript" THEN Extension("Ts") ELSE Extension("Js"))

resolveVueModule(name, containingFile) ==
  LET resolvedFileName == Uri_file(joinDirname(containingFile, name)).fsPath
  IN IF fileExists(resolvedFileName)
     THEN LET doc == docOrDiskDocument(resolvedFileName)
          IN ResolvedModule(resolvedFileName,
               IF doc.languageId = "typescript" THEN Extension("Ts") ELSE Extension("Js"))
     ELSE Unresolved

\* A bug that leaves the bridge module to the ordinary resolution.
resolveModuleName_noBridge(name, containingFile) ==
  IF name.abs \/ ~isVue(name) THEN ts_resolveModuleName(name, containingFile)
  ELSE resolveVueModule(name, containingFile)

\* One element of the map in host.resolveModuleNames.
resolveModuleName(name, containingFile) ==
  IF name = bridge_moduleName THEN ResolvedModule(bridge_fileName, Extension("Ts"))
  ELSE IF name.abs \/ ~isVue(name) THEN ts_resolveModuleName(name, containingFile)
  ELSE resolveVueModule(name, containingFile)

resolveModuleNames(moduleNames, containingFile) ==
  [i \in DOMAIN moduleNames |-> resolveModuleName(moduleNames[i], containingFile)]

getScriptSnapshot(fileName) ==
  IF fileName = bridge_fileName THEN bridge_content
  ELSE LET normalizedFileFsPath == getNormalizedFileFsPath(fileName)
           doc == docs[normalizedFileFsPath]
           read == readFile(normalizedFileFsPath)
           text == IF doc # Undefined THEN doc.text
                   ELSE IF read # Undefined THEN read ELSE EmptyString
       IN IF isVue(fileName) THEN parseVue(text) ELSE text


\* ------------------------------------------------- the service's syntax trees

\* A variant whose snapshots report the whole old text as changed.
getChangeRange_wholeText(oldSnapshot) == [span |-> oldSnapshot, newLength |-> 1]

\* getChangeRange of a snapshot the host hands out, asked with the snapshot of the old
\* tree: always void 0.
getChangeRange(oldSnapshot) == Undefined

NoTree == "no tree"

Reused == "tree reused"

Full == "createLanguageServiceSourceFile"

Incremental == "updateLanguageServiceSourceFile"

\* The way the service comes to the tree of a file: none is parsed while the version is
\* the one of the tree it has; the incremental update needs an old tree, an edit range
\* and a new version, and is not taken across a dialect change; else the file is parsed
\* in full.
reparsePath(oldVersion, version, textChangeRange, dialectChanged) ==
  IF oldVersion = NoTree THEN Full
  ELSE IF oldVersion = version THEN Reused
  ELSE IF textChangeRange # Undefined /\ ~dialectChanged THEN Incremental
  ELSE Full

isRootFile(rootFileNames, fileName) ==
  \E i \in DOMAIN rootFileNames : rootFileNames[i] = fileName

\* What a query that follows the handler's update does to bring the tree of fileName up
\* to the host's state, with the version the tree had before.
reparseOf(fileName) ==
  LET oldVersion == sourceFiles[fileName]
  IN [oldVersion |-> oldVersion,
      path |-> IF isRootFile(files', fileName)
               THEN reparsePath(oldVersion, getScriptVersion(fileName)',
                                getChangeRange(getScriptSnapshot(fileName)), cleanedUp')
               ELSE NoTree]

\* The service brings its trees up to the host's state before it answers: each root file
\* gets the tree of its current script version.
synchronizeHostData ==
  sourceFiles' = [p \in Paths |->
                    IF isRootFile(files', p) THEN getScriptVersion(p)' ELSE sourceFiles[p]]

\* ------------------------------------------------------- feature operations

\* languageServiceIncludesFile: the program's root file names are the host's file list.
languageServiceIncludesFile(rootFileNames, documentUri) ==
  \E i \in DOMAIN rootFileNames : rootFileNames[i] = getFilePath(documentUri)

\* doValidation, doComplete, doResolve, doHover, doSignatureHelp, findDocumentHighlight,
\* findDocumentSymbols, findDefinition and findReferences: each updates, tests
\* languageServiceIncludesFile and, when the file is a root file, queries the service.
Feature ==
  \E doc \in DocInputs :
    /\ WithinBounds(doc)
    /\ updateCurrentTextDocument(doc)
    /\ synchronizeHostData
    /\ lastOp' = [op |-> "feature", doc |-> doc, updated |-> TRUE,
                  queried |-> languageServiceIncludesFile(files', doc.uri),
                  reparse |-> reparseOf(getFileFsPath(doc.uri))]
    /\ UNCHANGED disk

\* format updates and queries getFormattingEditsForRange without the root-file test.
format ==
  \E doc \in DocInputs :
    /\ WithinBounds(doc)
    /\ updateCurrentTextDocument(doc)
    /\ synchronizeHostData
    /\ lastOp' = [op |-> "format", doc |-> doc, updated |-> TRUE, queried |-> TRUE,
                  reparse |-> reparseOf(getFileFsPath(doc.uri))]
    /\ UNCHANGED disk

\* findComponents queries getProgram() at once.
findComponents ==
  \E doc \in DocInputs :
    /\ UNCHANGED <<disk, hostState>>
    /\ cleanedUp' = FALSE
    /\ synchronizeHostData
    /\ lastOp' = [op |-> "findComponents", doc |-> doc, updated |-> FALSE, queried |-> TRUE,
                  reparse |-> reparseOf(getFileFsPath(doc.uri))]

FeatureOps == {"feature", "format", "findComponents"}

\* ------------------------------------- the language service calling the host

\* The file names the language service asks the host about.
HostPaths == {P_b, P_c, Q_a, Q_b, bridge_fileName}

HostCall(op, arg) ==
  /\ lastOp' = [op |-> op, arg |-> arg]
  /\ cleanedUp' = FALSE
  /\ UNCHANGED <<disk, hostState, sourceFiles>>

CallGetCompilationSettings == HostCall("getCompilationSettings", Undefined)

\* A variant in which the array handed out is consumed: its last entry is popped.
CallGetScriptFileNames_popping ==
  /\ lastOp' = [op |-> "getScriptFileNames", arg |-> Undefined]
  /\ cleanedUp' = FALSE
  /\ files' = SubSeq(files, 1, Len(files) - 1)
  /\ UNCHANGED <<disk, docs, versions, currentTextDocument, compilerOptions, sourceFiles>>

CallGetScriptFileNames == HostCall("getScriptFileNames", Undefined)

CallGetScriptVersion == \E fileName \in HostPaths : HostCall("getScriptVersion", fileName)

\* A bug that stores the document read from disk in docs when the kind of an untracked
\* .vue file is asked for.
CallGetScriptKind_storing ==
  \E fileName \in HostPaths :
    LET store == isVue(fileName) /\ docs[fileName] = Undefined
    IN /\ lastOp' = [op |-> "getScriptKind", arg |-> fileName]
       /\ cleanedUp' = FALSE
       /\ docs' = IF store THEN [docs EXCEPT ![fileName] = diskDocument(fileName)] ELSE docs
       /\ versions' = IF store THEN [versions EXCEPT ![fileName] = 1] ELSE versions
       /\ UNCHANGED <<disk, files, currentTextDocument, compilerOptions, sourceFiles>>

CallGetScriptKind == \E fileName \in HostPaths : HostCall("getScriptKind", fileName)

CallGetScriptSnapshot == \E fileName \in HostPaths : HostCall("getScriptSnapshot", fileName)

\* A variant that tracks the import target it resolves: the document read from disk
\* is stored, counted and added to the root file list.
CallResolveModuleNames_tracking ==
  \E name \in ModuleNames, containingFile \in ContainingFiles :
    LET target == joinDirname(containingFile, name)
        track == ~name.abs /\ isVue(name) /\ fileExists(target) /\ docs[target] = Undefined
    IN /\ lastOp' = [op |-> "resolveModuleNames",
                     arg |-> [moduleNames |-> <<name>>, containingFile |-> containingFile]]
       /\ cleanedUp' = FALSE
       /\ docs' = IF track THEN [docs EXCEPT ![target] = diskDocument(target)] ELSE docs
       /\ versions' = IF track THEN [versions EXCEPT ![target] = 1] ELSE versions
       /\ files' = IF track THEN Append(files, target) ELSE files
       /\ UNCHANGED <<disk, currentTextDocument, compilerOptions, sourceFiles>>

CallResolveModuleNames ==
  \E name \in ModuleNames, containingFile \in ContainingFiles :
    HostCall("resolveModuleNames",
             [moduleNames |-> <<name>>, containingFile |-> containingFile])

\* ------------------------------------------------------------ environment

\* A file is written, replaced or deleted on disk behind the host's back.
DiskChange ==
  \E p \in MutablePaths, c \in Contents \cup {Undefined} :
    /\ c # disk[p]
    /\ disk' = [disk EXCEPT ![p] = c]
    /\ lastOp' = [op |-> "disk", arg |-> p]
    /\ cleanedUp' = FALSE
    /\ UNCHANGED <<hostState, sourceFiles>>

\* ---------------------------------------------------------- specification

Init ==
  /\ disk \in InitialDisks
  /\ docs = [p \in Paths |-> Undefined]
  /\ versions = [p \in Paths |-> 0]
  /\ \E includeVue \in BOOLEAN : files = parsedConfig_fileNames(disk, includeVue)
  /\ currentTextDocument = Undefined
  /\ compilerOptions = InitialCompilerOptions
  /\ cleanedUp = FALSE
  /\ sourceFiles = [p \in Paths |-> NoTree]
  /\ lastOp = [op |-> "createLanguageService"]

Next ==
  \/ Feature
  \/ format
  \/ findComponents
  \/ CallGetCompilationSettings
  \/ CallGetScriptFileNames
  \/ CallGetScriptVersion
  \/ CallGetScriptKind
  \/ CallGetScriptSnapshot
  \/ CallResolveModuleNames
  \/ DiskChange

Spec == Init /\ [][Next]_vars


\* ================================================================ properties

\* The operations that call updateCurrentTextDocument(doc) first.
UpdatingOps == {"feature", "format"}

\* The path of the document the last feature operation was called with.
lastPath == getFileFsPath(lastOp.doc.uri)

\* The dialect of the script block of a mixed-content text.
ScriptBlockDialect(text) ==
  IF \E i \in DOMAIN text.regions : text.regions[i].languageId = "typescript"
  THEN "typescript" ELSE "javascript"

\* The script block of a mixed-content text, the rest of the text blanked.
ScriptBlockText(text) ==
  Str([i \in DOMAIN text.regions |->
         IF text.regions[i].languageId \in {"javascript", "typescript"}
         THEN text.regions[i] ELSE Blank])

\* The guard of updateCurrentTextDocument on the document stored by the last accepted
\* update, written out for a document d.
DiffersFromCurrent(d) ==
  \/ currentTextDocument = Undefined
  \/ d.uri # currentTextDocument.uri
  \/ d.version # currentTextDocument.version

\* ---- C1

\* C1 as stated: every call of updateCurrentTextDocument(doc) raises the version
\* getScriptVersion reports for doc's path by exactly one, a re-submission of the
\* document of the preceding call included.
C1_EveryCallBumps ==
  [][lastOp'.op \in UpdatingOps =>
       \A p \in Paths, n \in 0..MaxVersion :
         (p = getFileFsPath(lastOp'.doc.uri) /\ getScriptVersion(p) = ToString(n))
           => getScriptVersion(p)' = ToString(n + 1)]_vars

\* C1 amended: a call of updateCurrentTextDocument(doc) raises the version reported
\* for doc's path by exactly one when doc differs from the current document in uri or
\* editor version, and leaves it as it is when both are the same (a re-submission of
\* the document of the preceding call); the version of a path never decreases.
C1_AcceptedCallBumps ==
  [][/\ lastOp'.op \in UpdatingOps =>
          \A p \in Paths, n \in 0..MaxVersion :
            (p = getFileFsPath(lastOp'.doc.uri) /\ getScriptVersion(p) = ToString(n))
              => getScriptVersion(p)' =
                   IF DiffersFromCurrent(lastOp'.doc) THEN ToString(n + 1) ELSE ToString(n)
     /\ \A p \in Paths : versions'[p] >= versions[p]]_vars

\* An update call has acted on b.vue, whose version two accepted updates have counted
\* up to "2".
C1_Witness ==
  /\ lastOp.op \in UpdatingOps
  /\ lastPath = P_b
  /\ getScriptVersion(P_b) = "2"

\* ---- C2

\* C2 as stated: a call of updateCurrentTextDocument for a tracked path with a document
\* whose dialect differs from the stored one invokes cleanupSemanticCache in that call.
C2_DialectChangeCleansUp ==
  [][lastOp'.op \in UpdatingOps =>
       \A p \in Paths :
         (/\ p = getFileFsPath(lastOp'.doc.uri)
          /\ docs[p] # Undefined
          /\ ScriptBlockDialect(lastOp'.doc.text) # docs[p].languageId)
           => cleanedUp']_vars

\* Every call that passes the guard for a tracked path with a changed dialect does
\* invoke cleanupSemanticCache: C2 fails through skipped calls only.
C2_AcceptedDialectChangeCleansUp ==
  [][(lastOp'.op \in UpdatingOps /\ DiffersFromCurrent(lastOp'.doc)) =>
       \A p \in Paths :
         (/\ p = getFileFsPath(lastOp'.doc.uri)
          /\ docs[p] # Undefined
          /\ ScriptBlockDialect(lastOp'.doc.text) # docs[p].languageId)
           => cleanedUp']_vars

\* ---- C3

C4_UpdateBeforeQuery ==
  lastOp.op \in FeatureOps =>
    /\ lastOp.updated
    /\ docs[lastPath] # Undefined
    /\ docs[lastPath].version = lastOp.doc.version

\* ---- C5

\* C5 as stated: the snapshot of a tracked path is the script text of the most recent
\* update made for that path.
C5_SnapshotIsLatestUpdate ==
  lastOp.op \in UpdatingOps =>
    getScriptSnapshot(lastPath) = ScriptBlockText(lastOp.doc.text)

\* After every call that passes the guard the snapshot is the script text of the
\* document of that call, whatever the disk holds: C5 fails through skipped calls only.
C5_AcceptedSnapshotIsUpdate ==
  [][(lastOp'.op \in UpdatingOps /\ DiffersFromCurrent(lastOp'.doc)) =>
       \A p \in Paths :
         p = getFileFsPath(lastOp'.doc.uri)
           => getScriptSnapshot(p)' = ScriptBlockText(lastOp'.doc.text)]_vars

\* ---- C6 to C9: resolution of a relative specifier that names a .vue file

RelativeVueNames == { name \in ModuleNames : ~name.abs /\ name.ext = "vue" }

\* The candidate path: the importer's directory joined with the specifier.
Candidate(name, containingFile) == Path(containingFile.dir, name.stem, name.ext)

ExtensionOf(dialect) == IF dialect = "typescript" THEN Extension("Ts") ELSE Extension("Js")

ScriptKindOf(dialect) == IF dialect = "typescript" THEN ScriptKind("TS") ELSE ScriptKind("JS")

\* C6: for a tracked .vue file whose in-memory dialect differs from the dialect of its
\* on-disk content, resolveModuleNames of a relative specifier for it and getScriptKind
\* of its path report the in-memory dialect.
C6_MemoryDialectWins ==
  \A name \in RelativeVueNames, containingFile \in ContainingFiles :
    LET target == Candidate(name, containingFile)
    IN (/\ docs[target] # Undefined
        /\ fileExists(target)
        /\ ScriptBlockDialect(disk[target]) # docs[target].languageId)
         => /\ resolveModuleNames(<<name>>, containingFile)
                 = <<ResolvedModule(target, ExtensionOf(docs[target].languageId))>>
            /\ getScriptKind(target) = ScriptKindOf(docs[target].languageId)

\* './b.vue' was resolved from a.vue while b.vue was tracked with another dialect than
\* the one of its file on disk.
C6_Witness ==
  /\ lastOp.op = "resolveModuleNames"
  /\ lastOp.arg = [moduleNames |-> <<N_relB>>, containingFile |-> P_a]
  /\ docs[P_b] # Undefined
  /\ fileExists(P_b)
  /\ ScriptBlockDialect(disk[P_b]) # docs[P_b].languageId

\* C7: a relative specifier naming a .vue file that is on disk and was never updated
\* resolves to the candidate path with the dialect of the script block on disk.
C7_UntrackedResolvesFromDisk ==
  \A name \in RelativeVueNames, containingFile \in ContainingFiles :
    LET target == Candidate(name, containingFile)
    IN (fileExists(target) /\ docs[target] = Undefined)
         => resolveModuleNames(<<name>>, containingFile)
              = <<ResolvedModule(target, ExtensionOf(ScriptBlockDialect(disk[target])))>>

\* './b.vue' was resolved from /q/a.vue to the never-opened /q/b.vue, while the tracked
\* /p/b.vue of the other directory holds the other dialect.
C7_Witness ==
  /\ lastOp.op = "resolveModuleNames"
  /\ lastOp.arg = [moduleNames |-> <<N_relB>>, containingFile |-> Q_a]
  /\ fileExists(Q_b)
  /\ docs[Q_b] = Undefined
  /\ docs[P_b] # Undefined
  /\ docs[P_b].languageId # ScriptBlockDialect(disk[Q_b])

\* C8: the bridge module name resolves to bridge.fileName from every containing file,
\* in every state.
C8_BridgeAlwaysResolves ==
  \A containingFile \in Paths :
    LET resolved == resolveModuleNames(<<bridge_moduleName>>, containingFile)[1]
    IN /\ resolved # Unresolved
       /\ resolved.resolvedFileName = bridge_fileName

\* The bridge module was resolved after updates had changed docs and the root file
\* list and after b.vue had gone from the disk.
C8_Witness ==
  /\ lastOp.op = "resolveModuleNames"
  /\ lastOp.arg.moduleNames = <<bridge_moduleName>>
  /\ docs[P_b] # Undefined
  /\ ~fileExists(P_b)
  /\ Len(files) > 2

\* C9 as stated: a relative .vue specifier is unresolved exactly when its candidate path
\* is neither on disk nor tracked.
C9_UnresolvedIffNowhere ==
  \A name \in RelativeVueNames, containingFile \in ContainingFiles :
    LET target == Candidate(name, containingFile)
    IN (resolveModuleNames(<<name>>, containingFile)[1] = Unresolved)
         <=> (~fileExists(target) /\ docs[target] = Undefined)

\* ---- C10

\* C10 as stated: the root file list never holds a path twice.
C10_NoDuplicateRootFiles ==
  \A i, j \in DOMAIN getScriptFileNames :
    i # j => getScriptFileNames[i] # getScriptFileNames[j]

\* ---- C11

\* C11: in every step the root file list either stays as it is or grows at its end: the
\* list before the step is a prefix of the list after it, and every path the step added
\* ends in .vue.
C11_RootFilesOnlyAppendVue ==
  [][/\ Len(getScriptFileNames') >= Len(getScriptFileNames)
     /\ SubSeq(getScriptFileNames', 1, Len(getScriptFileNames)) = getScriptFileNames
     /\ \A i \in (Len(getScriptFileNames) + 1)..Len(getScriptFileNames') :
          getScriptFileNames'[i].ext = "vue"]_vars

\* The update of b.vue appended it to a root file list that did not hold it at
\* construction, and an update of the plain script c.js has been through as well.
C11_Witness ==
  /\ lastOp.op \in UpdatingOps
  /\ getScriptFileNames[Len(getScriptFileNames)] = P_b
  /\ docs[P_c] # Undefined

\* ---- C12

\* C12: in every state each tracked .vue path, and each .vue path with a nonzero
\* version, is an element of the root file list.
C12_TrackedVueIsRoot ==
  \A p \in Paths :
    (isVue(p) /\ (docs[p] # Undefined \/ getScriptVersion(p) # "0"))
      => \E i \in DOMAIN getScriptFileNames : getScriptFileNames[i] = p

\* b.vue was left out of the root file list at construction, an update tracked it and
\* the language service then asked for the root file list.
C12_Witness ==
  /\ lastOp.op = "getScriptFileNames"
  /\ docs[P_b] # Undefined
  /\ getScriptVersion(P_b) = "1"
  /\ Len(getScriptFileNames) = 2
  /\ getScriptFileNames[2] = P_b

\* ---- C13

\* C13: getScriptVersion answers "0" for the bridge file; for any other path it answers
\* "0" exactly when the path is not tracked; a tracked path has a version of at least 1;
\* and a path has a stored document exactly when it has a stored version.
C13_ZeroIffUntracked ==
  /\ getScriptVersion(bridge_fileName) = "0"
  /\ \A p \in Paths :
       /\ p # bridge_fileName => (getScriptVersion(p) = "0" <=> docs[p] = Undefined)
       /\ docs[p] # Undefined => versions[p] >= 1
       /\ docs[p] # Undefined <=> versions[p] # 0

\* The language service asked for the version of the tracked b.vue while c.js was not
\* tracked.
C13_Witness ==
  /\ lastOp = [op |-> "getScriptVersion", arg |-> P_b]
  /\ docs[P_b] # Undefined
  /\ docs[P_c] = Undefined
  /\ getScriptVersion(P_b) = "2"
  /\ getScriptVersion(P_c) = "0"

\* ---- C14

\* C14: a step that changes the compilation settings is an update whose document has
\* another dialect than the one tracked for its path, it drops the semantic cache, and
\* it changes no setting except allowJs; hence host queries and updates without a
\* dialect change leave the settings as they are.
C14_SettingsChangeOnlyOnDialectChange ==
  [][getCompilationSettings' # getCompilationSettings =>
       /\ lastOp'.op \in UpdatingOps
       /\ cleanedUp'
       /\ \A p \in Paths :
            p = getFileFsPath(lastOp'.doc.uri) =>
              /\ docs[p] # Undefined
              /\ docs'[p].languageId # docs[p].languageId
       /\ [getCompilationSettings' EXCEPT !.allowJs = getCompilationSettings.allowJs]
            = getCompilationSettings]_vars

\* The second update of b.vue changed its dialect and with it allowJs, which was true
\* at construction.
C14_Witness ==
  /\ lastOp.op \in UpdatingOps
  /\ lastPath = P_b
  /\ cleanedUp
  /\ versions[P_b] = 2
  /\ getCompilationSettings.allowJs = FALSE
  /\ getCompilationSettings.allowNonTsExtensions = TRUE

\* ---- C15

\* C15 as stated: in every state getScriptKind answers for the bridge file with the
\* script kind it gives a mixed-content document whose script block is typescript.
C15_BridgeIsTypedKind ==
  /\ getScriptKind(bridge_fileName) = ScriptKindOf("typescript")
  /\ \A p \in Paths :
       (isVue(p) /\ docs[p] # Undefined /\ docs[p].languageId = "typescript")
         => getScriptKind(bridge_fileName) = getScriptKind(p)

\* ---- C16

C17_ConsecutiveEditsIncremental ==
  lastOp.op \in UpdatingOps =>
    /\ (/\ lastOp.reparse.oldVersion # NoTree
        /\ lastOp.reparse.oldVersion # getScriptVersion(lastPath)
        /\ ~cleanedUp) => lastOp.reparse.path = Incremental
    /\ cleanedUp => lastOp.reparse.path = Full

\* C17 amended: no snapshot of the host supplies an edit range, so no query reparses
\* incrementally: a file with an old tree and a new version is parsed in full, after a
\* dialect change as after any other edit.
C17_EveryReparseIsFull ==
  lastOp.op \in FeatureOps =>
    /\ lastOp.reparse.path # Incremental
    /\ (/\ lastOp.reparse.oldVersion # NoTree
        /\ lastOp.reparse.oldVersion # getScriptVersion(lastPath))
         => lastOp.reparse.path = Full
    /\ cleanedUp => lastOp.reparse.path = Full

\* The second of two edits of b.vue, which kept the dialect, was parsed in full although
\* the service had the tree of the first.
C17_Witness ==
  /\ lastOp.op \in UpdatingOps
  /\ lastPath = P_b
  /\ lastOp.reparse.oldVersion = "1"
  /\ getScriptVersion(P_b) = "2"
  /\ ~cleanedUp
  /\ lastOp.reparse.path = Full

\* ---- C18

\* The last call reported the path to the service: getScriptKind of it, or
\* resolveModuleNames of a relative .vue specifier for it.
ReportedLast(p) ==
  \/ lastOp = [op |-> "getScriptKind", arg |-> p]
  \/ /\ lastOp.op = "resolveModuleNames"
     /\ lastOp.arg.moduleNames[1] \in RelativeVueNames
     /\ Candidate(lastOp.arg.moduleNames[1], lastOp.arg.containingFile) = p

\* C18 as stated: when an untracked .vue file on disk has just been reported to the
\* service with its on-disk dialect, the update that opens it with another dialect drops
\* the semantic cache.
C18_FirstOpenDropsCache ==
  [][\A p \in Paths :
       (/\ lastOp'.op \in UpdatingOps
        /\ p = getFileFsPath(lastOp'.doc.uri)
        /\ isVue(p)
        /\ docs[p] = Undefined
        /\ fileExists(p)
        /\ ReportedLast(p)
        /\ docs'[p] # Undefined
        /\ docs'[p].languageId # ScriptBlockDialect(disk[p]))
         => cleanedUp']_vars

\* ---- C19

\* C19: in every state, for a relative .vue specifier whose candidate path is on disk,
\* resolveModuleNames resolves to the path with the typed extension while getScriptKind
\* of the path is TS, and with the untyped extension while it is JS.
C19_KindAgreesWithExtension ==
  \A name \in RelativeVueNames, containingFile \in ContainingFiles :
    LET p == Candidate(name, containingFile)
        resolved == resolveModuleNames(<<name>>, containingFile)[1]
    IN fileExists(p) =>
         /\ resolved # Unresolved
         /\ resolved.resolvedFileName = p
         /\ \/ getScriptKind(p) = ScriptKind("TS") /\ resolved.extension = Extension("Ts")
            \/ getScriptKind(p) = ScriptKind("JS") /\ resolved.extension = Extension("Js")

\* The service asked for the kind of b.vue, which is tracked as javascript while its
\* file on disk is typescript, and for the kind of the untracked /q/b.vue before.
C19_Witness ==
  /\ lastOp = [op |-> "getScriptKind", arg |-> P_b]
  /\ docs[P_b] # Undefined
  /\ docs[P_b].languageId = "javascript"
  /\ fileExists(P_b)
  /\ ScriptBlockDialect(disk[P_b]) = "typescript"
  /\ docs[Q_b] = Undefined
  /\ fileExists(Q_b)

\* ---- C20

\* C20 as stated: after an update that changed the dialect of a tracked file, allowJs is
\* true exactly when the file's new dialect is javascript.
C20_AllowJsFollowsNewDialect ==
  (lastOp.op \in UpdatingOps /\ cleanedUp) =>
    (getCompilationSettings.allowJs <=> docs[lastPath].languageId = "javascript")

\* ---- C21

\* C21 as stated: for every path but the bridge file, a step after which getScriptSnapshot
\* serves another text for the path is a step after which getScriptVersion returns
\* another version for it.
C21_TextChangeChangesVersion ==
  [][\A p \in Paths \ {bridge_fileName} :
       getScriptSnapshot(p)' # getScriptSnapshot(p)
         => getScriptVersion(p)' # getScriptVersion(p)]_vars

\* ---- C22

HostQueries == {"getScriptVersion", "getScriptKind", "getScriptSnapshot", "getScriptFileNames"}

\* C22: a handler that updates with the document of path p leaves the stored document
\* and the version of every other path as they are, and the host queries getScriptVersion,
\* getScriptKind, getScriptSnapshot and getScriptFileNames leave the stored documents,
\* the versions and the root file list as they are.
C22_UpdateAndQueriesFrame ==
  [][/\ lastOp'.op \in UpdatingOps =>
          \A p \in Paths :
            p # getFileFsPath(lastOp'.doc.uri)
              => docs'[p] = docs[p] /\ versions'[p] = versions[p]
     /\ lastOp'.op \in HostQueries =>
          docs' = docs /\ versions' = versions /\ files' = files]_vars

\* The service asked for the kind of the untracked /q/b.vue after updates had tracked
\* both b.vue and c.ts, c.ts last.
C22_Witness ==
  /\ lastOp = [op |-> "getScriptKind", arg |-> Q_b]
  /\ docs[Q_b] = Undefined
  /\ fileExists(Q_b)
  /\ docs[P_b] # Undefined
  /\ docs[P_c] # Undefined
  /\ currentTextDocument.uri = Uri_file(P_c)


====
